---- MODULE Spec2Model ----
(***************************************************************************)
(* Model of BrowserAttacher (src/targets/browser/browserAttacher.ts): the   *)
(* attach / reconnect state machine of the browser attach launcher.         *)
(*                                                                         *)
(* JavaScript runs the object single-threaded: every action below is one    *)
(* run-to-completion stretch of code between two suspension points          *)
(* (await) or one callback.  An async function that resumes after an await  *)
(* and returns into its awaiting caller is one stretch: the caller's        *)
(* continuation runs in the same microtask checkpoint.                      *)
(***************************************************************************)
EXTENDS Integers, Sequences, FiniteSets, TLC

\* ---------------------------------------------------------------- bounds
MaxTasks  == 2    \* attach attempts (_attemptToAttach calls) ever started
MaxConns  == 2    \* connections ever opened by launcher.attach
MaxTimers == 2    \* retry timers ever scheduled
MaxFails  == 1    \* failed connect attempts of one acquire loop

\* ------------------------------------------------------- inputs (objects)
\* AttachParams objects, compared by identity.  P1 has restart set.
Params == {"P1", "P2"}
NoParams == "undefined"
restart(p) == p = "P1"

\* Targets of the browser; T1 can be attached to, T2 (a service context) not.
Targets == {"T1", "T2"}
canAttach(x) == x = "T1"

\* what _attemptToAttach returns: undefined, or a localized error string
Pending == [error |-> "(not returned)", cause |-> ""]
NoError == [error |-> "(undefined)", cause |-> ""]
CannotConnect(cause) == [error |-> "attach.cannotConnect", cause |-> cause]
NoMatchingTarget == [error |-> "chrome.attach.noMatchingTarget", cause |-> "timeout"]

\* LaunchResult that keeps the session whatever the attempt returned
LaunchResultAlwaysBlocking(error) == [blockSessionTermination |-> TRUE]

\* launch(): the ILaunchResult made of what _attemptToAttach returned
LaunchResult(error) ==
  IF error = NoError THEN [blockSessionTermination |-> TRUE] ELSE [error |-> error]

\* launch() with a request that is no browser attach request
NotHandled == [blockSessionTermination |-> FALSE]

\* no launch call returned in the step
NoReturn == [returned |-> FALSE]

\* notifications
TargetListChanged == [event |-> "onTargetListChanged"]
\* (session: the connection whose handler fired it; not part of the payload)
Terminated(c) == [event |-> "onTerminated", killed |-> TRUE, code |-> 0, session |-> c]

VARIABLES
  lastLaunchParams,  \* this._lastLaunchParams
  connection,        \* this._connection: index into conns, 0 = undefined
  targetManager,     \* this._targetManager: index into tms, 0 = undefined
  attemptTimer,      \* this._attemptTimer: index into timers, 0 = undefined
  disposables,       \* this._disposables: connections whose onDisconnected subscription is registered
  tasks,             \* the calls of _attemptToAttach, each at its suspension point
  conns,             \* the CdpConnection objects launcher.attach returned
  tms,               \* the BrowserTargetManager objects
  timers,            \* the setTimeout handles of _scheduleAttach
  fired,             \* notifications fired by the last step, in order
  returned,          \* what a launch call returned in the last step, if one returned
  disposedRetry      \* history: dispose() ran while a retry timer was pending, no launch since

vars == <<lastLaunchParams, connection, targetManager, attemptTimer, disposables,
          tasks, conns, tms, timers, fired, returned, disposedRetry>>

TaskIds  == 1..Len(tasks)
ConnIds  == 1..Len(conns)
TmIds    == 1..Len(tms)
TimerIds == 1..Len(timers)

\* A task is inside acquireConnectionForBrowser.
InAcquire(t) == tasks[t].pc \in {"connecting", "delay"}

\* a timer that fired or was cleared
DeadTimer == [params |-> NoParams, state |-> "dead", signalled |-> FALSE, stale |-> FALSE]

PendingTimers == {k \in TimerIds : timers[k].state = "pending"}

Init ==
  /\ lastLaunchParams = NoParams
  /\ connection = 0
  /\ targetManager = 0
  /\ attemptTimer = 0
  /\ disposables = {}
  /\ tasks = <<>>
  /\ conns = <<>>
  /\ tms = <<>>
  /\ timers = <<>>
  /\ fired = <<>>
  /\ returned = NoReturn
  /\ disposedRetry = FALSE

\* The acquire loop's bookkeeping (token, counters, history) is kept until the
\* step after the loop returned; nothing reads it later.
PastAcquire(task) ==
  [task EXCEPT !.tok = "none", !.attempts = 0, !.fails = 0, !.delays = 0,
               !.superseded = FALSE, !.stale = FALSE]

Finish(task, result) == [PastAcquire(task) EXCEPT !.pc = "done", !.result = result]

\* Promise.race settles with `result`; the promise that lost stays pending
Raced(task, result, loser) == [Finish(task, result) EXCEPT !.loser = loser]

\* The head of acquireConnectionForBrowser's while loop, with `cur` the value
\* of this._lastLaunchParams: either the next launcher.attach call is made or
\* the loop is left and the "Cancelled" error returned to _attemptToAttach,
\* which returns it.
LoopHead(task, cur) ==
  IF cur = task.params
    THEN [task EXCEPT !.pc = "connecting", !.attempts = @ + 1]
    ELSE Finish(task, CannotConnect("Cancelled"))

\* the token that is never signalled (common/cancellation)
NeverCancelled == "never"

NewTask(p, tok, stale) ==
  [params |-> p, tok |-> tok, pc |-> "start", conn |-> 0, tm |-> 0,
   origin |-> IF tok = NeverCancelled THEN "retry" ELSE "launch",
   attempts |-> 0, fails |-> 0, delays |-> 0, result |-> Pending, loser |-> "none",
   superseded |-> FALSE, stale |-> stale]

\* history: the tasks whose acquire loop is running see the current params change to cur
MarkSuperseded(ts, cur) ==
  [t \in DOMAIN ts |->
     IF ts[t].pc \in {"connecting", "delay"} /\ ts[t].params # cur
       THEN [ts[t] EXCEPT !.superseded = TRUE] ELSE ts[t]]

\* The step ends the _attemptToAttach call of task t that launch() awaits
\* (line 58): launch returns.  The call made by a retry timer returns to nobody.
Returns(t) ==
  IF tasks[t].origin = "launch" /\ tasks'[t].pc = "done"
    THEN LaunchResult(tasks'[t].result) ELSE NoReturn

\* LaunchOther that records the params before it tests the request
LaunchOtherRecordingParams ==
  /\ returned' = NotHandled
  /\ fired' = <<>>
  /\ lastLaunchParams' = NoParams
  /\ tasks' = MarkSuperseded(tasks, NoParams)
  /\ UNCHANGED <<connection, targetManager, attemptTimer, disposables,
                 conns, tms, timers, disposedRetry>>

\* launch(params, context) with a request whose type is neither Chrome nor Edge
\* or whose request is not "attach"
LaunchOther ==
  /\ returned' = NotHandled
  /\ fired' = <<>>
  /\ UNCHANGED <<lastLaunchParams, connection, targetManager, attemptTimer, disposables,
                 tasks, conns, tms, timers, disposedRetry>>

\* launch(params, context) with a browser attach request
Launch(p) ==
  /\ Len(tasks) < MaxTasks
  /\ lastLaunchParams' = p
  /\ tasks' = Append(MarkSuperseded(tasks, p), LoopHead(NewTask(p, "live", FALSE), p))
  /\ fired' = <<>>
  /\ disposedRetry' = FALSE
  /\ UNCHANGED <<connection, targetManager, attemptTimer, disposables, conns, tms, timers>>
  /\ returned' = NoReturn

\* the caller signals the cancellation token of a launch context
CancelToken(t) ==
  /\ t \in TaskIds
  /\ tasks[t].tok = "live"
  /\ InAcquire(t)
  /\ tasks' = [tasks EXCEPT ![t].tok = "cancelled"]
  /\ fired' = <<>>
  /\ UNCHANGED <<lastLaunchParams, connection, targetManager, attemptTimer, disposables,
                 conns, tms, timers, disposedRetry>>
  /\ returned' = NoReturn

\* the caller signals the cancellation token of the launch context after the
\* attempt has installed connection c; the disconnect handler of c holds that
\* context (history: signalled)
CancelContext(c) ==
  /\ c \in ConnIds
  /\ conns[c].state # "disconnected"
  /\ ~conns[c].signalled
  /\ conns' = [conns EXCEPT ![c].signalled = TRUE]
  /\ fired' = <<>>
  /\ returned' = NoReturn
  /\ UNCHANGED <<lastLaunchParams, connection, targetManager, attemptTimer, disposables,
                 tasks, tms, timers, disposedRetry>>

\* ConnectFail without the wait: the loop tries again at once
ConnectFailNoDelay(t) ==
  /\ t \in TaskIds
  /\ tasks[t].pc = "connecting"
  /\ tasks[t].fails < MaxFails
  /\ tasks' = [tasks EXCEPT ![t] =
       IF @.tok = "cancelled"
         THEN Finish(@, CannotConnect("e.message"))
         ELSE LoopHead([@ EXCEPT !.fails = @ + 1], lastLaunchParams)]
  /\ fired' = <<>>
  /\ UNCHANGED <<lastLaunchParams, connection, targetManager, attemptTimer, disposables,
                 conns, tms, timers, disposedRetry>>
  /\ returned' = Returns(t)

\* ConnectFail without the test of the cancellation token
ConnectFailIgnoringToken(t) ==
  /\ t \in TaskIds
  /\ tasks[t].pc = "connecting"
  /\ tasks[t].fails < MaxFails
  /\ tasks' = [tasks EXCEPT ![t] = [@ EXCEPT !.pc = "delay", !.fails = @ + 1]]
  /\ fired' = <<>>
  /\ UNCHANGED <<lastLaunchParams, connection, targetManager, attemptTimer, disposables,
                 conns, tms, timers, disposedRetry>>
  /\ returned' = Returns(t)

\* launcher.attach rejects: the catch block of acquireConnectionForBrowser
ConnectFail(t) ==
  /\ t \in TaskIds
  /\ tasks[t].pc = "connecting"
  /\ tasks[t].fails < MaxFails
  /\ tasks' = [tasks EXCEPT ![t] =
       IF @.tok = "cancelled"
         THEN Finish(@, CannotConnect("e.message"))
         ELSE [@ EXCEPT !.pc = "delay", !.fails = @ + 1]]
  /\ fired' = <<>>
  /\ UNCHANGED <<lastLaunchParams, connection, targetManager, attemptTimer, disposables,
                 conns, tms, timers, disposedRetry>>
  /\ returned' = Returns(t)

\* delay(1000) of the acquire loop elapses; the while condition is tested again
DelayElapsed(t) ==
  /\ t \in TaskIds
  /\ tasks[t].pc = "delay"
  /\ tasks' = [tasks EXCEPT ![t] = LoopHead([@ EXCEPT !.delays = @ + 1], lastLaunchParams)]
  /\ fired' = <<>>
  /\ UNCHANGED <<lastLaunchParams, connection, targetManager, attemptTimer, disposables,
                 conns, tms, timers, disposedRetry>>
  /\ returned' = Returns(t)

\* launcher.attach resolves: the loop returns the connection and _attemptToAttach
\* installs it, subscribes to onDisconnected and calls BrowserTargetManager.connect
ConnectSucceed(t) ==
  /\ t \in TaskIds
  /\ tasks[t].pc = "connecting"
  /\ Len(conns) < MaxConns
  /\ LET c == Len(conns) + 1 IN
       /\ conns' = Append(conns, [state |-> "open", params |-> tasks[t].params,
                                  signalled |-> FALSE, terminated |-> FALSE])
       /\ connection' = c
       /\ disposables' = disposables \cup {c}
       /\ tasks' = [tasks EXCEPT ![t].pc = "tmconnect", ![t].conn = c]
  /\ fired' = <<>>
  /\ UNCHANGED <<lastLaunchParams, targetManager, attemptTimer, tms, timers, disposedRetry>>
  /\ returned' = NoReturn

\* BrowserTargetManager.connect attaches over the connection: it makes a manager
\* only over a connection that has not ended, and resolves undefined otherwise
\* ("no attach performed")
CanAttachOver(c) == conns[c].state # "disconnected"

\* BrowserTargetManager.connect resolves, with a manager (made = TRUE) or undefined
TargetManagerConnected(t, made) ==
  /\ t \in TaskIds
  /\ tasks[t].pc = "tmconnect"
  /\ made => CanAttachOver(tasks[t].conn)
  /\ IF made
       THEN LET m == Len(tms) + 1 IN
            /\ tms' = Append(tms, [conn |-> tasks[t].conn, disposed |-> FALSE, targets |-> {}])
            /\ targetManager' = m
            /\ tasks' = [tasks EXCEPT ![t] = [PastAcquire(@) EXCEPT !.pc = "race", !.tm = m]]
       ELSE /\ tms' = tms
            /\ targetManager' = 0
            /\ tasks' = [tasks EXCEPT ![t] = Finish(@, NoError)]
  /\ fired' = <<>>
  /\ UNCHANGED <<lastLaunchParams, connection, attemptTimer, disposables, conns, timers,
                 disposedRetry>>
  /\ returned' = Returns(t)

\* Promise.race: waitForMainTarget resolves first
MainTargetFound(t) ==
  /\ t \in TaskIds
  /\ tasks[t].pc = "race"
  /\ tms[tasks[t].tm].targets # {}
  /\ tasks' = [tasks EXCEPT ![t] = Raced(@, NoError, "delay")]
  /\ fired' = <<>>
  /\ UNCHANGED <<lastLaunchParams, connection, targetManager, attemptTimer, disposables,
                 conns, tms, timers, disposedRetry>>
  /\ returned' = Returns(t)

\* MainTargetTimeout that closes the connection when it gives up
MainTargetTimeoutClosing(t) ==
  /\ t \in TaskIds
  /\ tasks[t].pc = "race"
  /\ tasks' = [tasks EXCEPT ![t] = Raced(@, NoMatchingTarget, "waitForMainTarget")]
  /\ conns' = [conns EXCEPT ![tasks[t].conn].state =
                 IF @ = "open" THEN "closed" ELSE @]
  /\ fired' = <<>>
  /\ returned' = Returns(t)
  /\ UNCHANGED <<lastLaunchParams, connection, targetManager, attemptTimer, disposables,
                 tms, timers, disposedRetry>>

\* Promise.race: delay(params.timeout) resolves first
MainTargetTimeout(t) ==
  /\ t \in TaskIds
  /\ tasks[t].pc = "race"
  /\ tasks' = [tasks EXCEPT ![t] = Raced(@, NoMatchingTarget, "waitForMainTarget")]
  /\ fired' = <<>>
  /\ UNCHANGED <<lastLaunchParams, connection, targetManager, attemptTimer, disposables,
                 conns, tms, timers, disposedRetry>>
  /\ returned' = Returns(t)

\* BrowserTargetManager.dispose(); the target list of a disposed manager is not
\* read by anything modelled here and is left out
Disposed(manager) == [manager EXCEPT !.disposed = TRUE, !.targets = {}]

\* a target manager still receives events of its connection
Emitting(m) ==
  /\ m \in TmIds
  /\ ~tms[m].disposed
  /\ conns[tms[m].conn].state # "disconnected"

\* targetManager.onTargetAdded
TargetAdded(m, x) ==
  /\ Emitting(m)
  /\ x \notin tms[m].targets
  /\ tms' = [tms EXCEPT ![m].targets = @ \cup {x}]
  /\ fired' = <<TargetListChanged>>
  /\ UNCHANGED <<lastLaunchParams, connection, targetManager, attemptTimer, disposables,
                 tasks, conns, timers, disposedRetry>>
  /\ returned' = NoReturn

\* TargetRemoved reading the target list as it was before the removal
TargetRemovedStaleList(m, x) ==
  /\ Emitting(m)
  /\ x \in tms[m].targets
  /\ LET rest == tms[m].targets \ {x}
         exit == tms[m].targets = {} /\ canAttach(x) IN
       /\ tms' = [tms EXCEPT ![m].targets = rest]
       /\ fired' = IF exit THEN <<TargetListChanged, Terminated(tms[m].conn)>>
                           ELSE <<TargetListChanged>>
       /\ conns' = IF exit THEN [conns EXCEPT ![tms[m].conn].terminated = TRUE] ELSE conns
  /\ UNCHANGED <<lastLaunchParams, connection, targetManager, attemptTimer, disposables,
                 tasks, timers, disposedRetry>>
  /\ returned' = NoReturn

\* TargetRemoved that does not ask whether the removed target is attachable
TargetRemovedAnyTarget(m, x) ==
  /\ Emitting(m)
  /\ x \in tms[m].targets
  /\ LET rest == tms[m].targets \ {x}
         exit == rest = {} IN
       /\ tms' = [tms EXCEPT ![m].targets = rest]
       /\ fired' = IF exit THEN <<TargetListChanged, Terminated(tms[m].conn)>>
                           ELSE <<TargetListChanged>>
       /\ conns' = IF exit THEN [conns EXCEPT ![tms[m].conn].terminated = TRUE] ELSE conns
  /\ UNCHANGED <<lastLaunchParams, connection, targetManager, attemptTimer, disposables,
                 tasks, timers, disposedRetry>>
  /\ returned' = NoReturn

\* targetManager.onTargetRemoved
TargetRemoved(m, x) ==
  /\ Emitting(m)
  /\ x \in tms[m].targets
  /\ LET rest == tms[m].targets \ {x}
         exit == rest = {} /\ canAttach(x) IN
       /\ tms' = [tms EXCEPT ![m].targets = rest]
       /\ fired' = IF exit THEN <<TargetListChanged, Terminated(tms[m].conn)>>
                           ELSE <<TargetListChanged>>
       /\ conns' = IF exit THEN [conns EXCEPT ![tms[m].conn].terminated = TRUE] ELSE conns
  /\ UNCHANGED <<lastLaunchParams, connection, targetManager, attemptTimer, disposables,
                 tasks, timers, disposedRetry>>
  /\ returned' = NoReturn

\* targetManager.frameModel.onFrameNavigated
FrameNavigated(m) ==
  /\ Emitting(m)
  /\ fired' = <<TargetListChanged>>
  /\ UNCHANGED <<lastLaunchParams, connection, targetManager, attemptTimer, disposables,
                 tasks, conns, tms, timers, disposedRetry>>
  /\ returned' = NoReturn

\* targetManager.serviceWorkerModel.onDidChange
ServiceWorkerChanged(m) ==
  /\ Emitting(m)
  /\ fired' = <<TargetListChanged>>
  /\ UNCHANGED <<lastLaunchParams, connection, targetManager, attemptTimer, disposables,
                 tasks, conns, tms, timers, disposedRetry>>
  /\ returned' = NoReturn

\* Disconnect with a handler that does not compare the params with the current ones
DisconnectIgnoringParams(c) ==
  /\ c \in ConnIds
  /\ conns[c].state \in {"open", "closed"}
  /\ LET p == conns[c].params
         retry == restart(p)
         k == Len(timers) + 1
         gone == [conns EXCEPT ![c].state = "disconnected", ![c].terminated = FALSE] IN
       IF c \in disposables
         THEN /\ retry => Len(timers) < MaxTimers
              /\ connection' = 0
              /\ targetManager' = 0
              /\ tms' = IF targetManager # 0
                          THEN [tms EXCEPT ![targetManager] = Disposed(@)] ELSE tms
              /\ IF retry
                   THEN /\ timers' = Append(timers, [params |-> p, state |-> "pending",
                                                      signalled |-> conns[c].signalled,
                                                      stale |-> FALSE])
                        /\ attemptTimer' = k
                        /\ conns' = gone
                   ELSE /\ timers' = timers
                        /\ attemptTimer' = attemptTimer
                        /\ conns' = gone
              /\ fired' = (IF targetManager # 0 THEN <<TargetListChanged>> ELSE <<>>)
                          \o (IF retry THEN <<>> ELSE <<Terminated(c)>>)
         ELSE /\ conns' = gone
              /\ fired' = <<>>
              /\ UNCHANGED <<connection, targetManager, tms, timers, attemptTimer>>
  /\ disposables' = disposables \ {c}
  /\ UNCHANGED <<lastLaunchParams, tasks, disposedRetry>>
  /\ returned' = NoReturn

\* Disconnect with a handler that tears down and schedules nothing
DisconnectWithoutSchedule(c) ==
  /\ c \in ConnIds
  /\ conns[c].state \in {"open", "closed"}
  /\ LET gone == [conns EXCEPT ![c].state = "disconnected", ![c].terminated = FALSE] IN
       IF c \in disposables
         THEN /\ connection' = 0
              /\ targetManager' = 0
              /\ tms' = IF targetManager # 0
                          THEN [tms EXCEPT ![targetManager] = Disposed(@)] ELSE tms
              /\ conns' = gone
              /\ fired' = (IF targetManager # 0 THEN <<TargetListChanged>> ELSE <<>>)
                          \o <<Terminated(c)>>
              /\ UNCHANGED <<timers, attemptTimer>>
         ELSE /\ conns' = gone
              /\ fired' = <<>>
              /\ UNCHANGED <<connection, targetManager, tms, timers, attemptTimer>>
  /\ disposables' = disposables \ {c}
  /\ UNCHANGED <<lastLaunchParams, tasks, disposedRetry>>
  /\ returned' = NoReturn

\* The connection ends (the remote end went away, or close() took effect) and
\* fires onDisconnected; the handler of _attemptToAttach runs if still subscribed.
Disconnect(c) ==
  /\ c \in ConnIds
  /\ conns[c].state \in {"open", "closed"}
  /\ LET p == conns[c].params
         retry == lastLaunchParams = p /\ restart(p)
         k == Len(timers) + 1
         gone == [conns EXCEPT ![c].state = "disconnected", ![c].terminated = FALSE] IN
       IF c \in disposables
         THEN /\ retry => Len(timers) < MaxTimers
              /\ connection' = 0
              /\ targetManager' = 0
              /\ tms' = IF targetManager # 0
                          THEN [tms EXCEPT ![targetManager] = Disposed(@)] ELSE tms
              /\ IF retry
                   THEN /\ timers' = Append(timers, [params |-> p, state |-> "pending",
                                                      signalled |-> conns[c].signalled,
                                                      stale |-> FALSE])
                        /\ attemptTimer' = k
                        /\ conns' = gone
                   ELSE /\ timers' = timers
                        /\ attemptTimer' = attemptTimer
                        /\ conns' = gone
              /\ fired' = (IF targetManager # 0 THEN <<TargetListChanged>> ELSE <<>>)
                          \o (IF retry THEN <<>> ELSE <<Terminated(c)>>)
         ELSE /\ conns' = gone
              /\ fired' = <<>>
              /\ UNCHANGED <<connection, targetManager, tms, timers, attemptTimer>>
  /\ disposables' = disposables \ {c}
  /\ UNCHANGED <<lastLaunchParams, tasks, disposedRetry>>
  /\ returned' = NoReturn

\* RetryTimerFired that passes on the context as the disconnect handler got it
RetryTimerFiredSameContext(k) ==
  /\ k \in TimerIds
  /\ timers[k].state = "pending"
  /\ Len(tasks) < MaxTasks
  /\ timers' = [timers EXCEPT ![k] = DeadTimer]
  /\ attemptTimer' = 0
  /\ tasks' = Append(tasks,
                     LoopHead([NewTask(timers[k].params, NeverCancelled, timers[k].stale)
                                 EXCEPT !.tok = IF timers[k].signalled
                                                  THEN "cancelled" ELSE "live"],
                              lastLaunchParams))
  /\ fired' = <<>>
  /\ UNCHANGED <<lastLaunchParams, connection, targetManager, disposables, conns, tms,
                 disposedRetry>>
  /\ returned' = NoReturn

\* the setTimeout callback of _scheduleAttach
RetryTimerFired(k) ==
  /\ k \in TimerIds
  /\ timers[k].state = "pending"
  /\ Len(tasks) < MaxTasks
  /\ timers' = [timers EXCEPT ![k] = DeadTimer]
  /\ attemptTimer' = 0
  /\ tasks' = Append(tasks, LoopHead(NewTask(timers[k].params, NeverCancelled, timers[k].stale),
                                     lastLaunchParams))
  /\ fired' = <<>>
  /\ UNCHANGED <<lastLaunchParams, connection, targetManager, disposables, conns, tms,
                 disposedRetry>>
  /\ returned' = NoReturn

\* RaceLoserCompletes whose late outcome is returned as the attempt's result
RaceLoserCompletesReturning(t) ==
  /\ t \in TaskIds
  /\ tasks[t].pc = "done"
  /\ tasks[t].loser # "none"
  /\ tasks[t].loser = "waitForMainTarget" => tms[tasks[t].tm].targets # {}
  /\ tasks' = [tasks EXCEPT ![t].loser = "none",
                            ![t].result = IF tasks[t].loser = "delay"
                                            THEN NoMatchingTarget ELSE NoError]
  /\ fired' = <<>>
  /\ returned' = LaunchResult(tasks'[t].result)
  /\ UNCHANGED <<lastLaunchParams, connection, targetManager, attemptTimer, disposables,
                 conns, tms, timers, disposedRetry>>

\* The promise that lost Promise.race settles after the attempt has returned:
\* the delay elapses, or a matching target appears for waitForMainTarget.
\* Nobody awaits it.
RaceLoserCompletes(t) ==
  /\ t \in TaskIds
  /\ tasks[t].pc = "done"
  /\ tasks[t].loser # "none"
  /\ tasks[t].loser = "waitForMainTarget" => tms[tasks[t].tm].targets # {}
  /\ tasks' = [tasks EXCEPT ![t].loser = "none"]
  /\ fired' = <<>>
  /\ returned' = NoReturn
  /\ UNCHANGED <<lastLaunchParams, connection, targetManager, attemptTimer, disposables,
                 conns, tms, timers, disposedRetry>>

\* targetList(): the snapshot of the manager the attacher holds, or nothing
targetList == IF targetManager = 0 THEN {} ELSE tms[targetManager].targets

\* terminate(), and disconnect() which calls it
Terminate ==
  /\ lastLaunchParams' = NoParams
  /\ conns' = IF connection # 0 /\ conns[connection].state = "open"
                THEN [conns EXCEPT ![connection].state = "closed"] ELSE conns
  /\ tasks' = [t \in DOMAIN tasks |->
                 IF InAcquire(t) THEN [tasks[t] EXCEPT !.stale = TRUE, !.superseded = TRUE]
                 ELSE tasks[t]]
  /\ timers' = [k \in DOMAIN timers |->
                  IF timers[k].state = "pending" THEN [timers[k] EXCEPT !.stale = TRUE]
                  ELSE timers[k]]
  /\ fired' = <<>>
  /\ UNCHANGED <<connection, targetManager, attemptTimer, disposables, tms, disposedRetry>>
  /\ returned' = NoReturn

\* dispose()
Dispose ==
  /\ disposables' = {}
  /\ timers' = IF attemptTimer # 0 /\ timers[attemptTimer].state = "pending"
                 THEN [timers EXCEPT ![attemptTimer] = DeadTimer] ELSE timers
  /\ tms' = IF targetManager # 0 THEN [tms EXCEPT ![targetManager] = Disposed(@)] ELSE tms
  /\ disposedRetry' = (disposedRetry \/ PendingTimers # {})
  /\ fired' = <<>>
  /\ UNCHANGED <<lastLaunchParams, connection, targetManager, attemptTimer, tasks, conns>>
  /\ returned' = NoReturn

Next ==
  \/ \E p \in Params : Launch(p)
  \/ \E t \in TaskIds : CancelToken(t)
  \/ \E t \in TaskIds : ConnectFail(t)
  \/ \E t \in TaskIds : DelayElapsed(t)
  \/ \E t \in TaskIds : ConnectSucceed(t)
  \/ \E t \in TaskIds, made \in BOOLEAN : TargetManagerConnected(t, made)
  \/ \E t \in TaskIds : MainTargetFound(t)
  \/ \E t \in TaskIds : MainTargetTimeout(t)
  \/ \E m \in TmIds, x \in Targets : TargetAdded(m, x)
  \/ \E m \in TmIds, x \in Targets : TargetRemoved(m, x)
  \/ \E m \in TmIds : FrameNavigated(m)
  \/ \E m \in TmIds : ServiceWorkerChanged(m)
  \/ \E c \in ConnIds : Disconnect(c)
  \/ \E k \in TimerIds : RetryTimerFired(k)
  \/ Terminate
  \/ Dispose

Spec == Init /\ [][Next]_vars

\* LaunchOther changes nothing of the attacher: the behaviours of Spec are those
\* of SpecAll with the calls that are not handled left out.
NextAll ==
  \/ Next
  \/ LaunchOther

SpecAll == Init /\ [][NextAll]_vars

\* The behaviours in which the caller signals a launch's token after its
\* connection is installed, for the attach attempts up to the connected target
\* manager; in Spec the token is followed only while the acquire loop runs.
NextCancel ==
  \/ \E p \in Params : Launch(p)
  \/ \E t \in TaskIds : CancelToken(t)
  \/ \E c \in ConnIds : CancelContext(c)
  \/ \E t \in TaskIds : ConnectFail(t)
  \/ \E t \in TaskIds : DelayElapsed(t)
  \/ \E t \in TaskIds : ConnectSucceed(t)
  \/ \E t \in TaskIds, made \in BOOLEAN : TargetManagerConnected(t, made)
  \/ \E c \in ConnIds : Disconnect(c)
  \/ \E k \in TimerIds : RetryTimerFired(k)
  \/ Terminate

SpecCancel == Init /\ [][NextCancel]_vars

\* launch() called once: the params it records are never superseded
LaunchOnce(p) == lastLaunchParams = NoParams /\ Launch(p)

\* Disconnect while the bounds leave room for the retry it may schedule
DisconnectInBounds(c) ==
  /\ restart(conns[c].params)
       => (Len(tasks) + Cardinality(PendingTimers) < MaxTasks /\ Len(conns) < MaxConns)
  /\ Disconnect(c)

\* The behaviours of one launch whose params stay current, with no terminate()
\* and no dispose(), in which BrowserTargetManager.connect makes a manager
\* whenever the connection has not ended.
NextReattach ==
  \/ \E p \in Params : LaunchOnce(p)
  \/ \E t \in TaskIds : ConnectFail(t)
  \/ \E t \in TaskIds : DelayElapsed(t)
  \/ \E t \in TaskIds : ConnectSucceed(t)
  \/ \E t \in TaskIds : TargetManagerConnected(t, CanAttachOver(tasks[t].conn))
  \/ \E t \in TaskIds : MainTargetFound(t)
  \/ \E t \in TaskIds : MainTargetTimeout(t)
  \/ \E m \in TmIds, x \in Targets : TargetAdded(m, x)
  \/ \E m \in TmIds, x \in Targets : TargetRemoved(m, x)
  \/ \E c \in ConnIds : DisconnectInBounds(c)
  \/ \E k \in TimerIds : RetryTimerFired(k)

\* setTimeout and delay(1000) elapse, a launcher.attach call that can only
\* succeed resolves, and BrowserTargetManager.connect resolves
FairReattach ==
  /\ \A k \in 1..MaxTimers : WF_vars(RetryTimerFired(k))
  /\ \A t \in 1..MaxTasks :
       /\ WF_vars(DelayElapsed(t))
       /\ WF_vars(ConnectSucceed(t))
       /\ WF_vars(TargetManagerConnected(t, TRUE))

SpecReattach == Init /\ [][NextReattach]_vars /\ FairReattach

\* The behaviours in which the promises that lost a race are followed until
\* they settle (in Spec they are left pending), for attach attempts whose every
\* launcher.attach call succeeds and an attacher that is not disposed: the
\* acquire loop's retries end before the race begins and are left out.
NextRace ==
  \/ \E p \in Params : Launch(p)
  \/ \E t \in TaskIds : ConnectSucceed(t)
  \/ \E t \in TaskIds, made \in BOOLEAN : TargetManagerConnected(t, made)
  \/ \E t \in TaskIds : MainTargetFound(t)
  \/ \E t \in TaskIds : MainTargetTimeout(t)
  \/ \E t \in TaskIds : RaceLoserCompletes(t)
  \/ \E m \in TmIds, x \in Targets : TargetAdded(m, x)
  \/ \E m \in TmIds, x \in Targets : TargetRemoved(m, x)
  \/ \E m \in TmIds : FrameNavigated(m)
  \/ \E m \in TmIds : ServiceWorkerChanged(m)
  \/ \E c \in ConnIds : Disconnect(c)
  \/ \E k \in TimerIds : RetryTimerFired(k)
  \/ Terminate

SpecRace == Init /\ [][NextRace]_vars

\* ------------------------------------------------------------------ claims

\* the notification n is fired by the step
Fires(n) == \E i \in DOMAIN fired' : fired'[i] = n

\* the step delivers the disconnect notification of connection c to its handler
Notified(c) ==
  /\ conns[c].state # "disconnected"
  /\ conns'[c].state = "disconnected"
  /\ c \in disposables

\* C1 (as claimed): a task whose params were superseded (the current AttachParams
\* changed to something else) while its acquire loop was running never installs
\* a connection as _connection.
C1_SupersessionSafety ==
  \A t \in TaskIds : tasks[t].superseded => tasks[t].conn = 0

\* C2 (as claimed): at most one connection is open (opened, neither closed nor
\* disconnected) and at most one target manager is constructed and not disposed.
C2_OneLiveConnectionAndManager ==
  /\ Cardinality({c \in ConnIds : conns[c].state = "open"}) <= 1
  /\ Cardinality({m \in TmIds : ~tms[m].disposed}) <= 1

\* C3 (as claimed): onTerminated fires at most once for one attached session:
\* once it has fired for the session of a connection, no later target removal
\* or disconnect of that connection fires it again.
C3_TerminatedOncePerSession ==
  [][\A c \in ConnIds : conns[c].terminated => ~Fires(Terminated(c))]_vars

\* C4: removing the only target of a target manager, an attachable one, fires
\* onTargetListChanged and then onTerminated({killed: true, code: 0}), in that
\* order, each once.
C4_GracefulExit ==
  [][\A m \in TmIds : \A x \in Targets :
       (/\ tms[m].targets = {x}
        /\ canAttach(x)
        /\ ~tms'[m].disposed
        /\ tms'[m].targets = {})
       => fired' = <<TargetListChanged, Terminated(tms[m].conn)>>]_vars

C4_Witness ==
  \E m \in TmIds :
    /\ ~tms[m].disposed
    /\ tms[m].targets = {}
    /\ fired = <<TargetListChanged, Terminated(tms[m].conn)>>

\* C5: each disconnect notification of a connection installed under params p
\* does exactly one of two things: if p is the current AttachParams and
\* p.restart is set, it schedules one retry timer (recorded in _attemptTimer)
\* and does not fire onTerminated; otherwise it fires onTerminated({killed:
\* true, code: 0}) once and schedules no timer.  In particular so does the
\* disconnect that follows terminate(), which left no current params.
C5_RetryOrTerminate ==
  [][\A c \in ConnIds : Notified(c) =>
       LET p == conns[c].params
           k == Len(timers) + 1 IN
       IF lastLaunchParams = p /\ restart(p)
         THEN /\ Len(timers') = k
              /\ timers'[k].state = "pending" /\ timers'[k].params = p
              /\ \A j \in TimerIds : timers'[j] = timers[j]
              /\ attemptTimer' = k
              /\ ~Fires(Terminated(c))
         ELSE /\ timers' = timers
              /\ attemptTimer' = attemptTimer
              /\ Cardinality({i \in DOMAIN fired' : fired'[i] = Terminated(c)}) = 1]_vars

\* terminate() on an attached session with restart set, then the disconnect:
\* onTerminated fired, no timer scheduled
C5_Witness ==
  \E c \in ConnIds :
    /\ restart(conns[c].params)
    /\ conns[c].state = "disconnected"
    /\ lastLaunchParams = NoParams
    /\ fired # <<>>
    /\ fired[Len(fired)] = Terminated(c)
    /\ timers = <<>>

\* C6 (as claimed): at most one retry timer is pending, and the pending one is
\* the one recorded in _attemptTimer.
C6_SingleRetryTimer ==
  /\ Cardinality(PendingTimers) <= 1
  /\ PendingTimers # {} => PendingTimers = {attemptTimer}

\* a connect attempt is made, or the acquire loop is called, by the step
AttachAttempted ==
  \/ Len(tasks') > Len(tasks)
  \/ \E t \in TaskIds : tasks[t].pc # "connecting" /\ tasks'[t].pc = "connecting"

\* C7 (as claimed): once dispose() has run while a retry scheduled by a
\* disconnect was pending, no attach attempt is made any more (until the
\* caller launches again).
C7_DisposeStopsRetry ==
  [][disposedRetry /\ disposedRetry' => ~AttachAttempted]_vars

\* C8 (as claimed): no acquire loop that was running, and no retry that was
\* scheduled, when terminate() was called ever installs a connection.
C8_TerminateInvalidates ==
  \A t \in TaskIds : tasks[t].stale => tasks[t].conn = 0

\* C9: an acquire loop whose token was not cancelled and whose params were
\* not superseded, and whose connect attempt succeeded after N failed ones,
\* has returned a connection after exactly N + 1 attempts and N delays.
C9_RetryTermination ==
  \A t \in TaskIds :
    (tasks[t].pc = "tmconnect" /\ ~tasks[t].superseded /\ tasks[t].tok # "cancelled")
    => /\ tasks[t].conn \in ConnIds
       /\ tasks[t].attempts = tasks[t].fails + 1
       /\ tasks[t].delays = tasks[t].fails

\* one failure, one delay, then success
C9_Witness ==
  \E t \in TaskIds :
    /\ tasks[t].pc = "tmconnect" /\ ~tasks[t].superseded /\ tasks[t].tok # "cancelled"
    /\ tasks[t].fails = 1
    /\ connection = tasks[t].conn

\* C10: when a connect attempt fails and the token is signaled, the acquire
\* loop returns the "cannot connect" error string with the failure cause; a
\* returned attempt makes no further connect attempt and waits no more.
C10_CancellationPrecedence ==
  [][\A t \in TaskIds :
       /\ (tasks[t].pc = "connecting" /\ tasks[t].tok = "cancelled"
            /\ tasks'[t].pc # "connecting" /\ tasks'[t].pc # "tmconnect")
          => (tasks'[t].pc = "done" /\ tasks'[t].result = CannotConnect("e.message"))
       /\ tasks[t].pc = "done" => tasks'[t] = tasks[t]]_vars

C10_Witness ==
  \E t \in TaskIds :
    tasks[t].pc = "done" /\ tasks[t].result = CannotConnect("e.message")

\* C11: the attach attempt made by the retry timer runs with the token that is
\* never signalled, whatever happened to the token of the launch that installed
\* the connection: when one of its connect attempts fails, its acquire loop
\* waits and tries again (it returns no error), and it returns only a connection
\* or, once the params are no longer current, the "Cancelled" error.
C11_RetryNotCancellable ==
  [][\A t \in TaskIds :
       tasks[t].origin = "retry"
       => /\ tasks[t].tok \in {NeverCancelled, "none"}
          /\ (tasks[t].pc = "connecting" /\ tasks'[t].pc # "connecting")
             => \/ tasks'[t].pc = "delay"
                \/ tasks'[t].pc = "tmconnect" /\ tasks'[t].conn # 0
          /\ (tasks[t].pc = "delay" /\ tasks'[t].pc # "delay")
             => \/ tasks'[t].pc = "connecting"
                \/ /\ tasks'[t].result = CannotConnect("Cancelled")
                   /\ lastLaunchParams # tasks[t].params]_vars

\* the launch's token was signalled after its connection was installed, the
\* connection ended, and the retry's acquire loop waits after a failed attempt
C11_Witness ==
  \E c \in ConnIds, t \in TaskIds :
    /\ conns[c].state = "disconnected" /\ conns[c].signalled
    /\ tasks[t].origin = "retry" /\ tasks[t].params = conns[c].params
    /\ tasks[t].pc = "delay" /\ tasks[t].fails = 1

\* C12: launch with a request that is no browser attach request returns
\* {blockSessionTermination: false} and changes nothing: the current params, the
\* connection, the target manager, the retry timers, the subscriptions and the
\* attach attempts in flight stay as they are, and no notification fires.
C12_LaunchOtherIsNoOp ==
  [][returned' = NotHandled =>
       /\ fired' = <<>>
       /\ UNCHANGED <<lastLaunchParams, connection, targetManager, attemptTimer,
                      disposables, tasks, conns, tms, timers>>]_vars

\* the call returned "not handled" while an attach was in flight and current
C12_Witness ==
  /\ returned = NotHandled
  /\ \E t \in TaskIds :
       InAcquire(t) /\ ~tasks[t].superseded /\ tasks[t].params = lastLaunchParams

\* the step ends the attach attempt that a launch call awaits
LaunchEnds(t) == tasks[t].origin = "launch" /\ tasks[t].pc # "done" /\ tasks'[t].pc = "done"

\* C13 (as claimed): launch returns {blockSessionTermination: true} only when
\* the attach attempt resolved a main target over an installed connection.
C13_BlockOnlyWithMainTarget ==
  [][\A t \in TaskIds :
       (LaunchEnds(t) /\ returned' = [blockSessionTermination |-> TRUE])
       => (tasks[t].pc = "race" /\ tms[tasks[t].tm].targets # {})]_vars

\* C13 (amended): launch returns {error} exactly when the attach attempt
\* returned an error string (the acquire loop's, or the timeout's), and
\* {blockSessionTermination: true} exactly when it returned none: when a main
\* target resolved, or when BrowserTargetManager.connect resolved undefined.
C13_LaunchResult ==
  [][\A t \in TaskIds : LaunchEnds(t) =>
       IF tasks'[t].result \in {CannotConnect("e.message"), CannotConnect("Cancelled"),
                                NoMatchingTarget}
         THEN /\ returned' = [error |-> tasks'[t].result]
              /\ tasks'[t].result = NoMatchingTarget <=> tasks[t].pc = "race"
         ELSE /\ returned' = [blockSessionTermination |-> TRUE]
              /\ tasks'[t].result = NoError
              /\ \/ tasks[t].pc = "race" /\ tms[tasks[t].tm].targets # {}
                 \/ tasks[t].pc = "tmconnect" /\ targetManager' = 0]_vars

\* launch returned {blockSessionTermination: true} with no manager made
C13_Witness ==
  /\ returned = [blockSessionTermination |-> TRUE]
  /\ \E t \in TaskIds :
       tasks[t].pc = "done" /\ tasks[t].result = NoError /\ tasks[t].tm = 0
  /\ targetManager = 0

\* C14: the step in which the main-target wait times out makes launch return
\* the timeout error and closes nothing: the connection and the target manager
\* the attacher holds, and every connection's and manager's state, are as
\* before; a connection is closed only by terminate().
C14_TimeoutLeavesConnection ==
  [][/\ returned' = [error |-> NoMatchingTarget]
        => UNCHANGED <<connection, targetManager, conns, tms, disposables,
                       lastLaunchParams, timers>>
     /\ \A c \in ConnIds :
          (conns[c].state = "open" /\ conns'[c].state = "closed")
          => (connection = c /\ lastLaunchParams' = NoParams)]_vars

\* launch returned the timeout error; its connection and manager are current and open
C14_Witness ==
  /\ returned = [error |-> NoMatchingTarget]
  /\ \E t \in TaskIds :
       /\ tasks[t].result = NoMatchingTarget
       /\ connection = tasks[t].conn /\ conns[connection].state = "open"
       /\ targetManager = tasks[t].tm /\ ~tms[targetManager].disposed

\* C17: dispose(), whatever the state it is called in, leaves no disconnect
\* subscription registered, no retry timer pending and no acquire loop waiting
\* out its retry delay (so that nothing is left to install a connection or to
\* fire a notification later).
C17_DisposeLeavesNothingLive ==
  [][Dispose => /\ disposables' = {}
                /\ PendingTimers' = {}
                /\ \A t \in TaskIds : tasks'[t].pc # "delay"]_vars

\* C18: a step in which a target manager gains a target fires
\* onTargetListChanged once and nothing else; a step in which a manager that
\* stays undisposed loses a target x fires onTargetListChanged once, followed by
\* onTerminated exactly when no target remains and x is attachable; a step that
\* changes nothing of the attacher and fires at all (frame navigated, service
\* workers changed) fires onTargetListChanged once, from an emitting manager.
C18_TargetBridging ==
  [][/\ \A m \in TmIds :
          /\ (tms[m].targets \subseteq tms'[m].targets /\ tms[m].targets # tms'[m].targets)
             => fired' = <<TargetListChanged>>
          /\ \A x \in tms[m].targets :
               (~tms'[m].disposed /\ x \notin tms'[m].targets)
               => /\ tms'[m].targets = tms[m].targets \ {x}
                  /\ fired' = IF tms'[m].targets = {} /\ canAttach(x)
                                THEN <<TargetListChanged, Terminated(tms[m].conn)>>
                                ELSE <<TargetListChanged>>
     /\ (fired' # <<>> /\ UNCHANGED <<lastLaunchParams, connection, targetManager,
                                       attemptTimer, disposables, tasks, conns, tms, timers>>)
        => (fired' = <<TargetListChanged>> /\ \E m \in TmIds : Emitting(m))]_vars

\* the last target of the current manager went away without being attachable:
\* the list changed and the session goes on
C18_Witness ==
  /\ fired = <<TargetListChanged>>
  /\ targetManager # 0 /\ Emitting(targetManager)
  /\ tms[targetManager].targets = {}
  /\ \E t \in TaskIds : tasks[t].tm = targetManager /\ tasks[t].result = NoMatchingTarget

\* C15: the attempt leaves Promise.race with success only if a matching target
\* exists at that moment and with the timeout error otherwise, the other
\* promise being left pending; when that promise settles later, the result the
\* attempt returned, the connection, the target manager and every other field
\* stay as they are, launch returns nothing again and no notification fires.
C15_RaceCorrectness ==
  [][\A t \in TaskIds :
       /\ (tasks[t].pc = "race" /\ tasks'[t].pc = "done")
          => \/ /\ tasks'[t].result = NoError /\ tasks'[t].loser = "delay"
                /\ tms[tasks[t].tm].targets # {}
             \/ /\ tasks'[t].result = NoMatchingTarget
                /\ tasks'[t].loser = "waitForMainTarget"
       /\ (tasks[t].loser # "none" /\ tasks'[t].loser = "none")
          => /\ tasks'[t].result = tasks[t].result
             /\ tasks'[t].pc = "done"
             /\ \A u \in TaskIds \ {t} : tasks'[u] = tasks[u]
             /\ fired' = <<>> /\ returned' = NoReturn
             /\ UNCHANGED <<lastLaunchParams, connection, targetManager, attemptTimer,
                            disposables, conns, tms, timers>>]_vars

\* the timeout won the race, and the wait for a main target settled afterwards
C15_Witness ==
  \E t \in TaskIds :
    /\ tasks[t].pc = "done" /\ tasks[t].result = NoMatchingTarget
    /\ tasks[t].tm # 0 /\ tasks[t].loser = "none"
    /\ tms[tasks[t].tm].targets # {}
    /\ connection = tasks[t].conn /\ targetManager = tasks[t].tm

\* C16: whenever the attacher holds a target manager that is not disposed, the
\* connection that manager was made over is the attacher's current connection
\* and has not disconnected.
C16_ManagerDiesWithConnection ==
  (targetManager # 0 /\ ~tms[targetManager].disposed)
  => /\ connection = tms[targetManager].conn
     /\ conns[tms[targetManager].conn].state # "disconnected"

\* C19: when a connection c that is not the attacher's current one disconnects
\* while another connection is current, the current connection stays, and so
\* does the manager made over it: held, undisposed, and targetList() as before.
C19_StaleDisconnectIsolated ==
  [][\A c \in ConnIds :
       (/\ conns[c].state # "disconnected" /\ conns'[c].state = "disconnected"
        /\ connection # 0 /\ connection # c)
       => /\ connection' = connection
          /\ (targetManager # 0 /\ tms[targetManager].conn = connection)
             => /\ targetManager' = targetManager
                /\ tms'[targetManager] = tms[targetManager]
                /\ targetList' = targetList]_vars

\* the connection installed under the current params, with restart set, has
\* disconnected and no connection is installed
Lost ==
  /\ connection = 0
  /\ lastLaunchParams # NoParams /\ restart(lastLaunchParams)
  /\ \E c \in ConnIds :
       conns[c].state = "disconnected" /\ conns[c].params = lastLaunchParams

\* the acquire loop of a retry has made a connect attempt
RetryAttempted ==
  \E t \in TaskIds : tasks[t].origin = "retry" /\ tasks[t].pc # "start"

\* a retry has installed a connection and the target manager made over it
Reattached ==
  \E t \in TaskIds :
    /\ tasks[t].origin = "retry" /\ tasks[t].params = lastLaunchParams
    /\ tasks[t].conn # 0 /\ connection = tasks[t].conn
    /\ tasks[t].tm # 0 /\ targetManager = tasks[t].tm

TypeOK ==
  /\ lastLaunchParams \in Params \cup {NoParams}
  /\ connection \in {0} \cup ConnIds
  /\ targetManager \in {0} \cup TmIds
  /\ attemptTimer \in {0} \cup TimerIds
  /\ disposables \subseteq ConnIds
====
